---------------------------- MODULE Spec2Model ----------------------------
(***************************************************************************)
(* Model of the StellarAIO checkout-webhook parser (parser.ts) and of the  *)
(* Discord listener that feeds it (bot/src/index.ts).                      *)
(*                                                                         *)
(* Text is modelled as a sequence of characters (one-character strings),   *)
(* so that trimming, lower-casing, the regular expressions and the number  *)
(* parsers are computed the way the code computes them.  A JavaScript Map  *)
(* is a sequence of <<key, value>> entries in insertion order.             *)
(***************************************************************************)
EXTENDS Integers, Sequences, FiniteSets, TLC

VARIABLES
    embed,              \* parser input: the Embed argument (present = FALSE: null)
    rawText,            \* parser input: the rawText argument
    pc,                 \* "start" | "classified" | "parsed" | "listening"
    isCheckout,         \* result of isSuccessfulCheckout(embed, rawText)
    locals,             \* the local Maps of parseWebhookMessage(embed, rawText)
    purchases,          \* result of parseWebhookMessage(embed, rawText)
    pushedIdx,          \* the _idx of the loop iteration that pushed each purchase
    processedMessages,  \* listener: Set<string> of message ids
    tasks,              \* listener: processMessage invocations suspended at an await
    calls,              \* listener: log of the calls made to the parser
    sink,               \* listener: log of the insertPurchase calls
    events              \* listener: number of gateway events delivered so far

vars == <<embed, rawText, pc, isCheckout, locals, purchases, pushedIdx,
          processedMessages, tasks, calls, sink, events>>

-----------------------------------------------------------------------------
(* Characters and strings                                                  *)

NL == "\n"

LowerChars == <<"a", "b", "c", "d", "e", "f", "g", "h", "i", "j", "k", "l", "m",
                "n", "o", "p", "q", "r", "s", "t", "u", "v", "w", "x", "y", "z">>

UpperChars == <<"A", "B", "C", "D", "E", "F", "G", "H", "I", "J", "K", "L", "M",
                "N", "O", "P", "Q", "R", "S", "T", "U", "V", "W", "X", "Y", "Z">>

DigitChars == <<"0", "1", "2", "3", "4", "5", "6", "7", "8", "9">>

Range(s) == {s[i] : i \in 1..Len(s)}

SetMin(S) == CHOOSE x \in S : \A y \in S : x <= y

SetMax(S) == CHOOSE x \in S : \A y \in S : x >= y

LowerSet == Range(LowerChars)

UpperSet == Range(UpperChars)

DigitSet == Range(DigitChars)

IsLower(c) == c \in LowerSet

IsUpper(c) == c \in UpperSet

IsLetter(c) == IsLower(c) \/ IsUpper(c)

IsDigit(c) == c \in DigitSet

\* \s of the regular expressions and the characters String.trim removes,
\* over the model's alphabet: the space and the line feed.
IsSpace(c) == c \in {" ", NL}

DigitValues == [c \in DigitSet |-> (CHOOSE k \in 1..Len(DigitChars) : DigitChars[k] = c) - 1]

DigitVal(c) == DigitValues[c]

LowerCaseOf == [c \in UpperSet |-> LowerChars[CHOOSE k \in 1..Len(UpperChars) : UpperChars[k] = c]]

LowerOf(c) == IF IsUpper(c) THEN LowerCaseOf[c] ELSE c

toLowerCase(s) == [i \in 1..Len(s) |-> LowerOf(s[i])]

trim(s) ==
    LET keep == {i \in 1..Len(s) : ~IsSpace(s[i])}
    IN  IF keep = {} THEN <<>> ELSE SubSeq(s, SetMin(keep), SetMax(keep))

\* String.includes
includes(s, sub) ==
    \E i \in 0..(Len(s) - Len(sub)) : SubSeq(s, i + 1, i + Len(sub)) = sub

\* Array.join over a sequence of strings
RECURSIVE join(_, _)
join(parts, sep) ==
    IF parts = <<>> THEN <<>>
    ELSE IF Len(parts) = 1 THEN parts[1]
    ELSE parts[1] \o sep \o join(Tail(parts), sep)

\* The decimal value of a string of digits
RECURSIVE DigitsValue(_)
DigitsValue(ds) ==
    IF ds = <<>> THEN 0
    ELSE 10 * DigitsValue(SubSeq(ds, 1, Len(ds) - 1)) + DigitVal(ds[Len(ds)])

\* null / undefined of a string-valued slot
Null == <<"null">>

-----------------------------------------------------------------------------
(* JavaScript Map: entries <<key, value>> in insertion order               *)

MapHas(m, k) == \E i \in 1..Len(m) : m[i][1] = k

MapGet(m, k) == m[CHOOSE i \in 1..Len(m) : m[i][1] = k][2]

MapSet(m, k, v) ==
    IF MapHas(m, k)
    THEN [i \in 1..Len(m) |-> IF m[i][1] = k THEN <<k, v>> ELSE m[i]]
    ELSE Append(m, <<k, v>>)

MapKeys(m) == [i \in 1..Len(m) |-> m[i][1]]

\* new Map([...a, ...b]): the entries of a, then those of b, set in order
RECURSIVE MapOverlay(_, _)
MapOverlay(a, b) ==
    IF b = <<>> THEN a
    ELSE MapOverlay(MapSet(a, b[1][1], b[1][2]), Tail(b))

\* map.get(k) || dflt  (an absent key and an empty string both give dflt)
GetOr(m, k, dflt) ==
    IF MapHas(m, k) /\ MapGet(m, k) # <<>> THEN MapGet(m, k) ELSE dflt

-----------------------------------------------------------------------------
(* The static tables                                                       *)

L_site == <<"s", "i", "t", "e">>
L_product == <<"p", "r", "o", "d", "u", "c", "t">>
L_price == <<"p", "r", "i", "c", "e">>
L_qty == <<"q", "t", "y">>
L_quantity == <<"q", "u", "a", "n", "t", "i", "t", "y">>
L_sku == <<"s", "k", "u">>
L_mode == <<"m", "o", "d", "e">>
L_fulfillment_type == <<"f", "u", "l", "f", "i", "l", "l", "m", "e", "n", "t", " ", "t", "y", "p", "e">>
L_fulfillment == <<"f", "u", "l", "f", "i", "l", "l", "m", "e", "n", "t">>
L_profile == <<"p", "r", "o", "f", "i", "l", "e">>
L_order_id == <<"o", "r", "d", "e", "r", " ", "i", "d">>
L_order_number == <<"o", "r", "d", "e", "r", " ", "n", "u", "m", "b", "e", "r">>
L_order_hash == <<"o", "r", "d", "e", "r", " ", "#">>
L_order_email == <<"o", "r", "d", "e", "r", " ", "e", "m", "a", "i", "l">>
L_email == <<"e", "m", "a", "i", "l">>
L_order_link == <<"o", "r", "d", "e", "r", " ", "l", "i", "n", "k">>
L_link == <<"l", "i", "n", "k">>
L_account == <<"a", "c", "c", "o", "u", "n", "t">>
L_buy_now_atc == <<"b", "u", "y", " ", "n", "o", "w", " ", "a", "t", "c", "?">>
L_buy_now == <<"b", "u", "y", " ", "n", "o", "w">>

\* label -> canonical key
FIELD_MAPPINGS ==
    << <<L_site, "site">>,
       <<L_product, "product">>,
       <<L_price, "price">>,
       <<L_qty, "quantity">>,
       <<L_quantity, "quantity">>,
       <<L_sku, "sku">>,
       <<L_mode, "mode">>,
       <<L_fulfillment_type, "fulfillment_type">>,
       <<L_fulfillment, "fulfillment_type">>,
       <<L_profile, "profile">>,
       <<L_order_id, "order_id">>,
       <<L_order_number, "order_id">>,
       <<L_order_hash, "order_id">>,
       <<L_order_email, "order_email">>,
       <<L_email, "order_email">>,
       <<L_order_link, "order_link">>,
       <<L_link, "order_link">>,
       <<L_account, "account">>,
       <<L_buy_now_atc, "mode">>,
       <<L_buy_now, "mode">> >>

PER_ITEM_FIELDS == {L_product, L_price, L_qty, L_quantity, L_sku}

SHARED_FIELDS == {L_site, L_mode, L_fulfillment_type, L_fulfillment, L_profile,
                  L_order_id, L_order_number, L_order_hash, L_order_email,
                  L_email, L_order_link, L_link, L_account}

-----------------------------------------------------------------------------
(* isSuccessfulCheckout                                                    *)

P_successful_checkout == <<"s", "u", "c", "c", "e", "s", "s", "f", "u", "l", " ", "c", "h", "e", "c", "k", "o", "u", "t">>
P_checkout_success == <<"c", "h", "e", "c", "k", "o", "u", "t", " ", "s", "u", "c", "c", "e", "s", "s">>
P_successfully_checked_out == <<"s", "u", "c", "c", "e", "s", "s", "f", "u", "l", "l", "y", " ", "c", "h", "e", "c", "k", "e", "d", " ", "o", "u", "t">>

TriggerPhrases == {P_successful_checkout, P_checkout_success, P_successfully_checked_out}

\* mutant: the parts concatenated with no separator
textToCheckUnseparated(e, text) ==
    toLowerCase(join(<<e.title, e.description, e.authorName, text>>, <<>>))

\* the text the classifier searches: the four parts joined by one space
textToCheck(e, text) ==
    toLowerCase(join(<<e.title, e.description, e.authorName, text>>, <<" ">>))

isSuccessfulCheckout(e, text) ==
    IF ~e.present /\ text = <<>> THEN FALSE
    ELSE \E phrase \in TriggerPhrases : includes(textToCheck(e, text), phrase)

-----------------------------------------------------------------------------
(* parseFieldName                                                          *)

NoMatch == [matched |-> FALSE, baseName |-> <<>>, index |-> 0]

\* /^([a-z\s]+?)\s*\((\d+)\)$/ : the label before the last "(", and the digits
\* between it and the closing ")" that ends the string
numberedMatch(lower) ==
    LET n == Len(lower)
        opens == {i \in 1..n : lower[i] = "("}
        p == SetMax(opens)
    IN  IF /\ opens # {}
           /\ lower[n] = ")"
           /\ p >= 2
           /\ p + 1 <= n - 1
           /\ \A i \in (p + 1)..(n - 1) : IsDigit(lower[i])
           /\ \A i \in 1..(p - 1) : IsLower(lower[i]) \/ IsSpace(lower[i])
        THEN [matched |-> TRUE,
              baseName |-> trim(SubSeq(lower, 1, p - 1)),
              index |-> DigitsValue(SubSeq(lower, p + 1, n - 1)) - 1]
        ELSE NoMatch

parseFieldName(fieldName) ==
    LET lower == trim(toLowerCase(fieldName))
        numbered == numberedMatch(lower)
    IN  IF numbered.matched /\ MapHas(FIELD_MAPPINGS, numbered.baseName)
        THEN numbered
        ELSE IF MapHas(FIELD_MAPPINGS, lower)
        THEN [matched |-> TRUE, baseName |-> lower, index |-> 0]
        ELSE NoMatch

-----------------------------------------------------------------------------
(* extractFieldsFromText                                                   *)

\* String.split('\n')
RECURSIVE split(_)
split(text) ==
    LET nls == {i \in 1..Len(text) : text[i] = NL}
    IN  IF nls = {} THEN <<text>>
        ELSE <<SubSeq(text, 1, SetMin(nls) - 1)>>
             \o split(SubSeq(text, SetMin(nls) + 1, Len(text)))

\* text.split('\n').map(l => l.trim()).filter(l => l.length > 0)
textLines(text) ==
    LET trimmed == [i \in 1..Len(split(text)) |-> trim(split(text)[i])]
    IN  SelectSeq(trimmed, LAMBDA l : l # <<>>)

\* items.get(index).set(key, value), creating the inner Map when absent
ItemSet(items, index, key, value) ==
    MapSet(items, index,
           MapSet(IF MapHas(items, index) THEN MapGet(items, index) ELSE <<>>,
                  key, value))

ItemHas(items, index, key) ==
    MapHas(items, index) /\ MapHas(MapGet(items, index), key)

\* the body of the line-pair arm: record nextLine under the parsed label
recordLinePair(acc, parsed, nextLine) ==
    LET mappedName == MapGet(FIELD_MAPPINGS, parsed.baseName)
    IN  IF parsed.baseName \in PER_ITEM_FIELDS
        THEN [acc EXCEPT !.items = ItemSet(acc.items, parsed.index, mappedName, nextLine)]
        ELSE IF parsed.baseName \in SHARED_FIELDS /\ ~MapHas(acc.shared, mappedName)
        THEN [acc EXCEPT !.shared = MapSet(acc.shared, mappedName, nextLine)]
        ELSE acc

\* for (let i = 0; i < lines.length; i++) { ... }   (i is 1-based here)
RECURSIVE linePairLoop(_, _, _)
linePairLoop(lines, i, acc) ==
    IF i > Len(lines) THEN acc
    ELSE IF /\ parseFieldName(lines[i]).matched
            /\ i + 1 <= Len(lines)
            /\ ~parseFieldName(lines[i + 1]).matched
    THEN linePairLoop(lines, i + 2,
                      recordLinePair(acc, parseFieldName(lines[i]), lines[i + 1]))
    ELSE linePairLoop(lines, i + 1, acc)

\* [A-Za-z0-9\s#?()]
IsColonLabelChar(c) == IsLetter(c) \/ IsDigit(c) \/ IsSpace(c) \/ c \in {"#", "?", "(", ")"}

\* ^ under the m flag
IsLineStart(text, p) == p = 1 \/ text[p - 1] = NL

\* the last position of the line that holds position p
LineEnd(text, p) ==
    LET nls == {i \in p..Len(text) : text[i] = NL}
    IN  IF nls = {} THEN Len(text) ELSE SetMin(nls) - 1

\* /^([A-Za-z][A-Za-z0-9\s#?()]+?):\s*(.+)$/gm tried at position p.
\* The label runs to the first ":" after p (":" is not a label character);
\* \s* takes the whole run of white space after it, line feeds included,
\* and gives some back only when that run reaches the end of the text.
colonMatchAt(text, p) ==
    LET n == Len(text)
        colons == {i \in (p + 1)..n : text[i] = ":"}
        q == SetMin(colons)
        nonSpace == {i \in (q + 1)..n : ~IsSpace(text[i])}
        blanks == {i \in (q + 1)..n : text[i] = " "}
        r == IF nonSpace # {} THEN SetMin(nonSpace) ELSE SetMax(blanks)
    IN  IF /\ IsLineStart(text, p)
           /\ IsLetter(text[p])
           /\ colons # {}
           /\ q >= p + 2
           /\ \A i \in (p + 1)..(q - 1) : IsColonLabelChar(text[i])
           /\ (nonSpace # {} \/ blanks # {})
        THEN [matched |-> TRUE,
              fieldName |-> SubSeq(text, p, q - 1),
              value |-> SubSeq(text, r, LineEnd(text, r)),
              last |-> LineEnd(text, r)]
        ELSE [matched |-> FALSE, fieldName |-> <<>>, value |-> <<>>, last |-> 0]

\* the body of the colon arm
recordColon(acc, fieldName, value) ==
    LET parsed == parseFieldName(fieldName)
        mappedName == MapGet(FIELD_MAPPINGS, parsed.baseName)
    IN  IF ~(parsed.matched /\ value # <<>>) THEN acc
        ELSE IF parsed.baseName \in PER_ITEM_FIELDS
        THEN IF ItemHas(acc.items, parsed.index, mappedName)
             THEN acc
             ELSE [acc EXCEPT !.items = ItemSet(acc.items, parsed.index, mappedName, value)]
        ELSE IF parsed.baseName \in SHARED_FIELDS /\ ~MapHas(acc.shared, mappedName)
        THEN [acc EXCEPT !.shared = MapSet(acc.shared, mappedName, value)]
        ELSE acc

\* while ((match = colonPattern.exec(text)) !== null) { ... }, from lastIndex
RECURSIVE colonLoop(_, _, _)
colonLoop(text, from, acc) ==
    LET starts == {p \in from..Len(text) : colonMatchAt(text, p).matched}
        m == colonMatchAt(text, SetMin(starts))
    IN  IF starts = {} THEN acc
        ELSE colonLoop(text, m.last + 1,
                       recordColon(acc, trim(m.fieldName), trim(m.value)))

extractFieldsFromText(text) ==
    colonLoop(text, 1,
              linePairLoop(textLines(text), 1, [shared |-> <<>>, items |-> <<>>]))

-----------------------------------------------------------------------------
(* Value cleansing                                                         *)

\* value.replace(/^\|{2}(.+?)\|{2}$/s, '$1').trim()
stripSpoilerTags(value) ==
    LET n == Len(value)
    IN  IF /\ n >= 5
           /\ value[1] = "|" /\ value[2] = "|"
           /\ value[n - 1] = "|" /\ value[n] = "|"
        THEN trim(SubSeq(value, 3, n - 2))
        ELSE trim(value)

RemoveChars(s, cs) == SelectSeq(s, LAMBDA c : c \notin cs)

\* the pound, euro and yen signs are single characters of the alphabet
CurrencySigns == {"$", "GBP-sign", "EUR-sign", "JPY-sign"}

C_usd == <<"u", "s", "d">>
C_eur == <<"e", "u", "r">>
C_gbp == <<"g", "b", "p">>
C_cad == <<"c", "a", "d">>
C_aud == <<"a", "u", "d">>

CurrencyCodes == {C_usd, C_eur, C_gbp, C_cad, C_aud}

\* the number of white-space characters of s from position i on
RECURSIVE SpaceRun(_, _)
SpaceRun(s, i) ==
    IF i <= Len(s) /\ IsSpace(s[i]) THEN 1 + SpaceRun(s, i + 1) ELSE 0

\* .replace(/\s*(USD|EUR|GBP|CAD|AUD)\s*/gi, '') from position i on
RECURSIVE removeCurrencyCodes(_, _)
removeCurrencyCodes(s, i) ==
    LET c == i + SpaceRun(s, i)
    IN  IF i > Len(s) THEN <<>>
        ELSE IF c + 2 <= Len(s) /\ toLowerCase(SubSeq(s, c, c + 2)) \in CurrencyCodes
        THEN removeCurrencyCodes(s, c + 3 + SpaceRun(s, c + 3))
        ELSE <<s[i]>> \o removeCurrencyCodes(s, i + 1)

\* the number of digits of s from position i on
RECURSIVE DigitRun(_, _)
DigitRun(s, i) ==
    IF i <= Len(s) /\ IsDigit(s[i]) THEN 1 + DigitRun(s, i + 1) ELSE 0

RECURSIVE Pow10(_)
Pow10(k) == IF k <= 0 THEN 1 ELSE 10 * Pow10(k - 1)

\* A number m / 10^k in lowest decimal form (k = 0 or m not a multiple of 10)
RECURSIVE Decimal(_, _)
Decimal(m, k) ==
    IF m = 0 THEN [m |-> 0, k |-> 0]
    ELSE IF k < 0 THEN [m |-> m * Pow10(-k), k |-> 0]
    ELSE IF k > 0 /\ m % 10 = 0 THEN Decimal(m \div 10, k - 1)
    ELSE [m |-> m, k |-> k]

NaN == [m |-> 0, k |-> -1]

\* parseFloat: the longest prefix  [+-] digits [. digits] [e [+-] digits]
\* (the literal Infinity is outside the model's inputs)
parseFloat(s) ==
    LET signed == s # <<>> /\ s[1] \in {"+", "-"}
        a == IF signed THEN 2 ELSE 1
        ni == DigitRun(s, a)
        dot == a + ni <= Len(s) /\ s[a + ni] = "."
        nf == IF dot THEN DigitRun(s, a + ni + 1) ELSE 0
        b == a + ni + (IF dot THEN 1 + nf ELSE 0)
        esigned == b + 1 <= Len(s) /\ s[b + 1] \in {"+", "-"}
        ea == IF esigned THEN b + 2 ELSE b + 1
        ne == IF b <= Len(s) /\ s[b] \in {"e", "E"} THEN DigitRun(s, ea) ELSE 0
        expo == IF ne = 0 THEN 0
                ELSE (IF esigned /\ s[b + 1] = "-" THEN -1 ELSE 1)
                     * DigitsValue(SubSeq(s, ea, ea + ne - 1))
        mant == DigitsValue(SubSeq(s, a, a + ni - 1) \o SubSeq(s, a + ni + 1, a + ni + nf))
    IN  IF ni + nf = 0 THEN NaN
        ELSE Decimal((IF signed /\ s[1] = "-" THEN -1 ELSE 1) * mant, nf - expo)

parsePrice(priceStr) ==
    LET cleaned == trim(removeCurrencyCodes(
                       RemoveChars(RemoveChars(stripSpoilerTags(priceStr), CurrencySigns),
                                   {","}), 1))
        parsed == parseFloat(cleaned)
    IN  IF parsed = NaN THEN Decimal(0, 0) ELSE parsed

Q_qty == <<"q", "t", "y">>

\* .replace(/qty:?\s*/gi, '') from position i on
RECURSIVE removeQtyPrefix(_, _)
removeQtyPrefix(s, i) ==
    LET c == IF i + 3 <= Len(s) /\ s[i + 3] = ":" THEN i + 4 ELSE i + 3
    IN  IF i > Len(s) THEN <<>>
        ELSE IF i + 2 <= Len(s) /\ toLowerCase(SubSeq(s, i, i + 2)) = Q_qty
        THEN removeQtyPrefix(s, c + SpaceRun(s, c))
        ELSE <<s[i]>> \o removeQtyPrefix(s, i + 1)

\* parseInt(s, 10): an optional sign and the digits that follow it
parseInt(s) ==
    LET signed == s # <<>> /\ s[1] \in {"+", "-"}
        a == IF signed THEN 2 ELSE 1
        n == DigitRun(s, a)
    IN  IF n = 0 THEN [isNaN |-> TRUE, value |-> 0]
        ELSE [isNaN |-> FALSE,
              value |-> (IF signed /\ s[1] = "-" THEN -1 ELSE 1)
                        * DigitsValue(SubSeq(s, a, a + n - 1))]

parseQuantity(qtyStr) ==
    LET cleaned == trim(removeQtyPrefix(RemoveChars(qtyStr, {"x", "X"}), 1))
        parsed == parseInt(cleaned)
    IN  IF parsed.isNaN THEN 1 ELSE parsed.value

-----------------------------------------------------------------------------
(* parseWebhookMessage                                                     *)

\* mutant: a key already set by an earlier field is not overwritten
recordEmbedFieldFirstWins(acc, field) ==
    LET parsed == parseFieldName(field.name)
        mappedName == MapGet(FIELD_MAPPINGS, parsed.baseName)
        value == trim(field.value)
    IN  IF ~parsed.matched THEN acc
        ELSE IF parsed.baseName \in PER_ITEM_FIELDS
        THEN IF ItemHas(acc.items, parsed.index, mappedName) THEN acc
             ELSE [acc EXCEPT !.items = ItemSet(acc.items, parsed.index, mappedName, value)]
        ELSE IF parsed.baseName \in SHARED_FIELDS /\ ~MapHas(acc.shared, mappedName)
        THEN [acc EXCEPT !.shared = MapSet(acc.shared, mappedName, value)]
        ELSE acc

\* the body of the loop over embed.fields
recordEmbedField(acc, field) ==
    LET parsed == parseFieldName(field.name)
        mappedName == MapGet(FIELD_MAPPINGS, parsed.baseName)
        value == trim(field.value)
    IN  IF ~parsed.matched THEN acc
        ELSE IF parsed.baseName \in PER_ITEM_FIELDS
        THEN [acc EXCEPT !.items = ItemSet(acc.items, parsed.index, mappedName, value)]
        ELSE IF parsed.baseName \in SHARED_FIELDS
        THEN [acc EXCEPT !.shared = MapSet(acc.shared, mappedName, value)]
        ELSE acc

\* if (embed?.fields) { for (const field of embed.fields) { ... } }
RECURSIVE embedFieldLoop(_, _)
embedFieldLoop(fields, acc) ==
    IF fields = <<>> THEN acc
    ELSE embedFieldLoop(Tail(fields), recordEmbedField(acc, fields[1]))

extractFieldsFromEmbed(e) ==
    embedFieldLoop(IF e.present THEN e.fields ELSE <<>>,
                   [shared |-> <<>>, items |-> <<>>])

\* new Map([...textShared, ...embedShared])
mergeShared(textShared, embedShared) == MapOverlay(textShared, embedShared)

\* new Map([...(textItems.get(idx) || new Map()), ...(embedItems.get(idx) || new Map())])
mergeItem(textItems, embedItems, idx) ==
    MapOverlay(IF MapHas(textItems, idx) THEN MapGet(textItems, idx) ELSE <<>>,
               IF MapHas(embedItems, idx) THEN MapGet(embedItems, idx) ELSE <<>>)

\* new Set([...embedItems.keys(), ...textItems.keys()]), in insertion order
allItemIndices(embedItems, textItems) ==
    MapKeys(embedItems)
    \o SelectSeq(MapKeys(textItems), LAMBDA k : ~MapHas(embedItems, k))

\* the merged items Map, with index 0 synthesized when it is empty
mergeItems(textItems, embedItems) ==
    LET indices == allItemIndices(embedItems, textItems)
    IN  IF indices = <<>> THEN << <<0, <<>> >> >>
        ELSE [i \in 1..Len(indices) |->
                 <<indices[i], mergeItem(textItems, embedItems, indices[i])>>]

\* mutant: the entries left in the Map's insertion order
sortEntriesUnsorted(entries) == entries

\* [...items.entries()].sort((a, b) => a[0] - b[0])
RECURSIVE sortEntries(_)
sortEntries(entries) ==
    LET least == SetMin({entries[i][1] : i \in 1..Len(entries)})
    IN  IF entries = <<>> THEN <<>>
        ELSE <<CHOOSE en \in Range(entries) : en[1] = least>>
             \o sortEntries(SelectSeq(entries, LAMBDA en : en[1] # least))

\* stripSpoilerTags(shared.get(key) || '') || null
optionalField(shared, key) ==
    LET v == stripSpoilerTags(GetOr(shared, key, <<>>))
    IN  IF v = <<>> THEN Null ELSE v

\* mutant: an item whose price does not parse to a non-zero number is skipped too
isSkippedWithoutPrice(shared, itemFields) ==
    \/ stripSpoilerTags(GetOr(itemFields, "product", <<>>)) = <<>>
    \/ stripSpoilerTags(GetOr(shared, "site", <<>>)) = <<>>
    \/ parsePrice(GetOr(itemFields, "price", <<"0">>)) = Decimal(0, 0)

\* if (!product || !site) continue;
isSkipped(shared, itemFields) ==
    \/ stripSpoilerTags(GetOr(itemFields, "product", <<>>)) = <<>>
    \/ stripSpoilerTags(GetOr(shared, "site", <<>>)) = <<>>

\* mutant: raw_message_text: rawText.trim()
buildPurchaseTrimmedRaw(shared, itemFields, text) ==
    [product |-> stripSpoilerTags(GetOr(itemFields, "product", <<>>)),
     price |-> parsePrice(GetOr(itemFields, "price", <<"0">>)),
     quantity |-> parseQuantity(GetOr(itemFields, "quantity", <<"1">>)),
     site |-> stripSpoilerTags(GetOr(shared, "site", <<>>)),
     sku |-> optionalField(itemFields, "sku"),
     mode |-> optionalField(shared, "mode"),
     fulfillment_type |-> optionalField(shared, "fulfillment_type"),
     profile |-> optionalField(shared, "profile"),
     order_id |-> optionalField(shared, "order_id"),
     order_email |-> optionalField(shared, "order_email"),
     order_link |-> optionalField(shared, "order_link"),
     account |-> optionalField(shared, "account"),
     raw_message_text |-> trim(text)]

\* the object pushed for one item
buildPurchase(shared, itemFields, text) ==
    [product |-> stripSpoilerTags(GetOr(itemFields, "product", <<>>)),
     price |-> parsePrice(GetOr(itemFields, "price", <<"0">>)),
     quantity |-> parseQuantity(GetOr(itemFields, "quantity", <<"1">>)),
     site |-> stripSpoilerTags(GetOr(shared, "site", <<>>)),
     sku |-> optionalField(itemFields, "sku"),
     mode |-> optionalField(shared, "mode"),
     fulfillment_type |-> optionalField(shared, "fulfillment_type"),
     profile |-> optionalField(shared, "profile"),
     order_id |-> optionalField(shared, "order_id"),
     order_email |-> optionalField(shared, "order_email"),
     order_link |-> optionalField(shared, "order_link"),
     account |-> optionalField(shared, "account"),
     raw_message_text |-> text]

\* the loop that builds the purchases: <<_idx, purchase>> for each item kept
RECURSIVE buildLoop(_, _, _)
buildLoop(entries, shared, text) ==
    IF entries = <<>> THEN <<>>
    ELSE IF isSkipped(shared, entries[1][2])
    THEN buildLoop(Tail(entries), shared, text)
    ELSE << <<entries[1][1], buildPurchase(shared, entries[1][2], text)>> >>
         \o buildLoop(Tail(entries), shared, text)

\* the local Maps of parseWebhookMessage once the items are merged
parseLocals(e, text) ==
    LET fromEmbed == extractFieldsFromEmbed(e)
        fromText == extractFieldsFromText(text)
    IN  [embedShared |-> fromEmbed.shared,
         embedItems |-> fromEmbed.items,
         textShared |-> fromText.shared,
         textItems |-> fromText.items,
         shared |-> mergeShared(fromText.shared, fromEmbed.shared),
         items |-> mergeItems(fromText.items, fromEmbed.items)]

\* the purchases built from those Maps, each with the _idx of the loop
\* iteration that pushed it
purchasesOf(maps, text) == buildLoop(sortEntries(maps.items), maps.shared, text)

parseWebhookMessage(e, text) == purchasesOf(parseLocals(e, text), text)

-----------------------------------------------------------------------------
(* Inputs of the parser                                                    *)

N_Site == <<"S", "i", "t", "e">>
N_Product == <<"P", "r", "o", "d", "u", "c", "t">>
N_Product1 == <<"P", "r", "o", "d", "u", "c", "t", " ", "(", "1", ")">>
N_Product2 == <<"P", "r", "o", "d", "u", "c", "t", " ", "(", "2", ")">>
N_Product0 == <<"P", "r", "o", "d", "u", "c", "t", " ", "(", "0", ")">>
N_Price == <<"P", "r", "i", "c", "e">>
N_Price1 == <<"P", "r", "i", "c", "e", " ", "(", "1", ")">>
N_Price2 == <<"P", "r", "i", "c", "e", " ", "(", "2", ")">>
N_Qty == <<"Q", "t", "y">>
N_Qty2 == <<"Q", "t", "y", " ", "(", "2", ")">>
N_Quantity == <<"Q", "u", "a", "n", "t", "i", "t", "y">>
N_BuyNow == <<"B", "u", "y", " ", "N", "o", "w">>
N_Mode == <<"M", "o", "d", "e">>
N_Color == <<"C", "o", "l", "o", "r">>
N_SKU == <<" ", "S", "K", "U">>
V_Nike == <<"N", "i", "k", "e">>
V_Kith == <<" ", "K", "i", "t", "h", " ">>
V_Shop == <<"S", "h", "o", "p">>
V_Mall == <<"M", "a", "l", "l">>
V_Blank == <<"|", "|", " ", "|", "|">>
V_AirMax == <<"A", "i", "r", " ", "M", "a", "x">>
V_Dunk == <<"|", "|", "D", "u", "n", "k", "|", "|">>
V_Jordan == <<"J", "o", "r", "d", "a", "n">>
V_Zero == <<"Z", "e", "r", "o">>
V_Hat == <<"H", "a", "t">>
V_Cap == <<"C", "a", "p">>
V_Boot == <<"B", "o", "o", "t">>
V_Price1234 == <<"$", "1", ",", "2", "3", "4", ".", "5", "6">>
V_Price100 == <<"1", "0", "0", " ", "U", "S", "D">>
V_abc == <<"a", "b", "c">>
V_0 == <<"0">>
V_2 == <<"2">>
V_x3 == <<"x", "3">>
V_neg2 == <<"-", "2">>
V_Qty5 == <<"Q", "t", "y", ":", " ", "5">>
V_Yes == <<"Y", "e", "s">>
V_Fast == <<"F", "a", "s", "t">>
V_Red == <<"R", "e", "d">>
V_AB1 == <<"A", "B", "1">>
W_SuccessfulCheckout == <<"S", "u", "c", "c", "e", "s", "s", "f", "u", "l", " ", "C", "h", "e", "c", "k", "o", "u", "t">>
W_Successful == <<"S", "u", "c", "c", "e", "s", "s", "f", "u", "l">>
W_Checkout == <<"C", "h", "e", "c", "k", "o", "u", "t">>
W_SpaceCheckout == <<" ", "c", "h", "e", "c", "k", "o", "u", "t">>
W_CheckoutSuccess == <<"C", "H", "E", "C", "K", "O", "U", "T", " ", "S", "U", "C", "C", "E", "S", "S", "!">>
W_CheckedOut == <<"Y", "o", "u", " ", "s", "u", "c", "c", "e", "s", "s", "f", "u", "l", "l", "y", " ", "c", "h", "e", "c", "k", "e", "d", " ", "o", "u", "t">>
W_OrderShipped == <<"O", "r", "d", "e", "r", " ", "s", "h", "i", "p", "p", "e", "d">>
W_Stellar == <<"S", "t", "e", "l", "l", "a", "r">>

Lines(ls) == join(ls, <<NL>>)

\* "Name: value"
Colon(name, value) == name \o <<":", " ">> \o value

Field(name, value) == [name |-> name, value |-> value]

\* the embed fields a message may carry
FieldPool ==
    {Field(N_Site, V_Nike), Field(N_Site, V_Kith), Field(N_Site, V_Blank),
     Field(N_Product, V_AirMax), Field(N_Product1, V_Dunk),
     Field(N_Product2, V_Jordan), Field(N_Product0, V_Zero),
     Field(N_Price2, V_abc),
     Field(N_Qty, V_0), Field(N_Qty2, V_x3), Field(N_Quantity, V_neg2),
     Field(N_BuyNow, V_Yes), Field(N_Mode, V_Fast)}

\* a two-item checkout with a shared site
MultiItemFields ==
    {Field(N_Product1, V_AirMax), Field(N_Price1, V_Price100),
     Field(N_Product2, V_Dunk), Field(N_Price2, V_Price1234),
     Field(N_Site, V_Nike)}

T_EndToEnd == Lines(<<N_Site, V_Nike, N_Product, V_AirMax, N_Price, V_Price100, N_Qty, V_2>>)

T_Colon == Lines(<<W_CheckoutSuccess, Colon(N_Site, V_Shop), Colon(N_Product2, V_Boot),
                   Colon(N_Product1, V_Hat), Colon(N_Qty2, V_Qty5), <<>> >>)

T_Repeat == Lines(<<N_Color, V_Red, N_Product, V_Hat, N_Product, V_Cap, N_Site, V_Shop, N_Site, V_Mall,
                    N_BuyNow, V_Yes>>)

T_Zero == Lines(<<N_SKU, V_AB1, N_Site, V_Mall, N_Product0, V_Zero, N_Mode, V_Fast,
                  N_Price, V_abc>>)

T_Mixed == Lines(<<Colon(N_Product, V_Hat), N_Product, V_Cap, N_Site, N_Product, V_Boot,
                   Colon(N_Site, V_Shop), Colon(N_BuyNow, V_Yes)>>)

TextPool == {<<>>, T_EndToEnd, T_Colon, T_Repeat, T_Zero, T_Mixed}

\* the most embed fields a message of the general family carries
MaxFields == 2

InjectiveSeqs(pool, n) ==
    {f \in [1..n -> pool] : \A i, j \in 1..n : i # j => f[i] # f[j]}

NullEmbed == [present |-> FALSE, title |-> <<>>, description |-> <<>>,
              authorName |-> <<>>, fields |-> <<>>]

Embed(title, description, authorName, fields) ==
    [present |-> TRUE, title |-> title, description |-> description,
     authorName |-> authorName, fields |-> fields]

\* inputs that exercise the classifier: the four searched parts vary
ClassifierInputs ==
    {<<e, t>> : e \in {NullEmbed}
                   \cup {Embed(ti, de, au, <<>>) :
                            ti \in {<<>>, W_SuccessfulCheckout, W_Successful,
                                    W_CheckoutSuccess, W_OrderShipped},
                            de \in {<<>>, W_Checkout, W_CheckedOut},
                            au \in {<<>>, W_Stellar, W_Successful}},
                t \in {<<>>, W_SpaceCheckout, W_Checkout, W_OrderShipped, T_Colon}}

\* inputs that exercise the parser: the embed fields and the text vary
ParserInputs ==
    {<<e, t>> : e \in {NullEmbed}
                   \cup {Embed(W_SuccessfulCheckout, <<>>, <<>>, fs) :
                            fs \in UNION {InjectiveSeqs(FieldPool, n) : n \in 0..MaxFields}},
                t \in TextPool}

\* the two-item checkout with its fields in every order
MultiItemInputs ==
    {<<Embed(W_SuccessfulCheckout, <<>>, <<>>, fs), t>> :
        fs \in InjectiveSeqs(MultiItemFields, Cardinality(MultiItemFields)),
        t \in {<<>>, W_SuccessfulCheckout}}

-----------------------------------------------------------------------------
(* The parser applied to one input                                         *)

NoLocals == [embedShared |-> <<>>, embedItems |-> <<>>, textShared |-> <<>>,
             textItems |-> <<>>, shared |-> <<>>, items |-> <<>>]

ListenerIdle ==
    /\ processedMessages = {}
    /\ tasks = <<>>
    /\ calls = <<>>
    /\ sink = <<>>
    /\ events = 0

Init ==
    /\ \E input \in ClassifierInputs \cup ParserInputs \cup MultiItemInputs :
           /\ embed = input[1]
           /\ rawText = input[2]
    /\ pc = "start"
    /\ isCheckout = FALSE
    /\ locals = NoLocals
    /\ purchases = <<>>
    /\ pushedIdx = <<>>
    /\ ListenerIdle

listenerVars == <<processedMessages, tasks, calls, sink, events>>

CallIsSuccessfulCheckout ==
    /\ pc = "start"
    /\ pc' = "classified"
    /\ isCheckout' = isSuccessfulCheckout(embed, rawText)
    /\ UNCHANGED <<embed, rawText, locals, purchases, pushedIdx, listenerVars>>

CallParseWebhookMessage ==
    /\ pc = "start"
    /\ pc' = "parsed"
    /\ locals' = parseLocals(embed, rawText)
    /\ LET out == purchasesOf(locals', rawText)
       IN  /\ purchases' = [i \in 1..Len(out) |-> out[i][2]]
           /\ pushedIdx' = [i \in 1..Len(out) |-> out[i][1]]
    /\ UNCHANGED <<embed, rawText, isCheckout, listenerVars>>

Next == CallIsSuccessfulCheckout \/ CallParseWebhookMessage

Spec == Init /\ [][Next]_vars

-----------------------------------------------------------------------------
(* The listener: processMessage and the gateway event handlers             *)

DISCORD_CHANNEL_ID == "configured-channel"

ID_1 == <<"1", "0", "0", "1">>
ID_2 == <<"1", "0", "0", "2">>
ID_3 == <<"1", "0", "0", "3">>
ID_4 == <<"1", "0", "0", "4">>
ID_5 == <<"1", "0", "0", "5">>

\* an embed of a received message; hasAuthor: msgEmbed.author is set
MsgEmbed(title, description, hasAuthor, authorName, fields) ==
    [title |-> title, description |-> description, hasAuthor |-> hasAuthor,
     authorName |-> authorName, fields |-> fields]

\* a received message; createdAt = "" stands for a missing timestamp
Message(id, channelId, content, embeds) ==
    [id |-> id, channelId |-> channelId, content |-> content,
     createdAt |-> "2024-01-01T00:00:00.000Z", embeds |-> embeds]

E_Single == MsgEmbed(W_SuccessfulCheckout, <<>>, FALSE, <<>>,
                     <<Field(N_Site, V_Nike), Field(N_Product, V_AirMax)>>)

E_Pair == MsgEmbed(W_SuccessfulCheckout, <<>>, TRUE, W_Stellar,
                   <<Field(N_Site, V_Shop), Field(N_Product1, V_Hat),
                     Field(N_Product2, V_Cap)>>)

E_Other == MsgEmbed(W_OrderShipped, W_Checkout, TRUE, <<>>,
                    <<Field(N_Site, V_Kith), Field(N_Product2, V_Jordan),
                      Field(N_Mode, V_Fast)>>)

E_TitleOnly == MsgEmbed(W_SuccessfulCheckout, <<>>, FALSE, <<>>, <<>>)

\* the messages the gateway may deliver; ID_1 is delivered in two versions
\* (the webhook edits it), ID_5 arrives in another channel
Messages ==
    {Message(ID_1, DISCORD_CHANNEL_ID, <<>>, <<E_Single>>),
     Message(ID_1, DISCORD_CHANNEL_ID, <<>>, <<E_Pair>>),
     Message(ID_2, DISCORD_CHANNEL_ID, W_Stellar, <<E_Other, E_Single>>),
     Message(ID_2, DISCORD_CHANNEL_ID, <<>>, <<E_Pair, E_Other>>),
     Message(ID_3, DISCORD_CHANNEL_ID, W_OrderShipped, <<>>),
     Message(ID_4, DISCORD_CHANNEL_ID, <<>>, <<E_TitleOnly>>),
     [Message(ID_4, DISCORD_CHANNEL_ID, T_EndToEnd, <<E_TitleOnly>>) EXCEPT !.createdAt = ""],
     Message(ID_5, "other-channel", <<>>, <<E_Single>>)}

\* the gateway events delivered in one session
MaxEvents == 2

\* the decimal digits of a natural number
RECURSIVE toString(_)
toString(n) ==
    IF n < 10 THEN <<DigitChars[n + 1]>>
    ELSE toString(n \div 10) \o <<DigitChars[(n % 10) + 1]>>

\* rawTextParts.push(`${field.name}\n${field.value}`) for each field
renderFields(fields) == [i \in 1..Len(fields) |-> fields[i].name \o <<NL>> \o fields[i].value]

\* the parts one embed adds to rawTextParts
embedTextParts(msgEmbed) ==
    (IF msgEmbed.title # <<>> THEN <<msgEmbed.title>> ELSE <<>>)
    \o (IF msgEmbed.description # <<>> THEN <<msgEmbed.description>> ELSE <<>>)
    \o (IF msgEmbed.hasAuthor /\ msgEmbed.authorName # <<>>
        THEN <<msgEmbed.authorName>> ELSE <<>>)
    \o renderFields(msgEmbed.fields)

\* embed = { title: ..., description: ..., author: ..., fields: ... }
simplifiedEmbed(msgEmbed) ==
    Embed(msgEmbed.title, msgEmbed.description,
          IF msgEmbed.hasAuthor THEN msgEmbed.authorName ELSE <<>>,
          msgEmbed.fields)

\* mutant: only the first embed is kept
embedAfterKeepFirst(previous, msgEmbed) ==
    IF previous.present THEN previous ELSE simplifiedEmbed(msgEmbed)

\* the assignment to embed in one iteration of the loop over message.embeds
embedAfter(previous, msgEmbed) == simplifiedEmbed(msgEmbed)

\* for (const msgEmbed of message.embeds) { ... }
RECURSIVE embedLoop(_, _)
embedLoop(embeds, acc) ==
    IF embeds = <<>> THEN acc
    ELSE embedLoop(Tail(embeds),
                   [rawTextParts |-> acc.rawTextParts \o embedTextParts(embeds[1]),
                    embed |-> embedAfter(acc.embed, embeds[1])])

\* the embed and the rawText processMessage hands to the parser
flattenMessage(message) ==
    LET done == embedLoop(message.embeds,
                          [rawTextParts |-> IF message.content # <<>>
                                            THEN <<message.content>> ELSE <<>>,
                           embed |-> NullEmbed])
    IN  [embed |-> done.embed, rawText |-> join(done.rawTextParts, <<NL>>)]

\* parsedItems.length > 1 ? `${message.id}_${i}` : message.id
discordMessageId(messageId, count, i) ==
    IF count > 1 THEN messageId \o <<"_">> \o toString(i) ELSE messageId

\* the object handed to insertPurchase for item i (0-based) of a task
purchaseRequest(task, i) ==
    [purchase |-> task.parsedItems[i + 1],
     purchase_date |-> task.purchaseDate,
     raw_message_text |-> task.rawText,
     discord_message_id |-> discordMessageId(task.messageId, Len(task.parsedItems), i)]

\* one entry of the log of parser calls: the function, the message being
\* processed, the two arguments and what the call returned
Call(fn, message, flat, returned) ==
    [fn |-> fn, message |-> message, embed |-> flat.embed, rawText |-> flat.rawText,
     returned |-> returned]

\* the state processMessage keeps across its awaits
Task(message, flat, parsedItems) ==
    [messageId |-> message.id,
     parsedItems |-> parsedItems,
     rawText |-> flat.rawText,
     purchaseDate |-> IF message.createdAt # "" THEN message.createdAt ELSE "now",
     i |-> 0,
     savedCount |-> 0]

\* mutant: the result of the checkout test is ignored
processFlattenedUnclassified(message, flat, parsedItems) ==
    /\ calls' = calls \o <<Call("isSuccessfulCheckout", message, flat,
                                isSuccessfulCheckout(flat.embed, flat.rawText)),
                           Call("parseWebhookMessage", message, flat, parsedItems)>>
    /\ IF parsedItems = <<>>
       THEN UNCHANGED <<processedMessages, tasks, sink>>
       ELSE /\ processedMessages' = processedMessages \cup {message.id}
            /\ sink' = Append(sink, purchaseRequest(Task(message, flat, parsedItems), 0))
            /\ tasks' = Append(tasks, Task(message, flat, parsedItems))

\* processMessage from the checkout test to its first await (or to its return)
processFlattened(message, flat, parsedItems) ==
    IF ~isSuccessfulCheckout(flat.embed, flat.rawText)
    THEN /\ calls' = Append(calls, Call("isSuccessfulCheckout", message, flat, FALSE))
         /\ UNCHANGED <<processedMessages, tasks, sink>>
    ELSE /\ calls' = calls \o <<Call("isSuccessfulCheckout", message, flat, TRUE),
                                Call("parseWebhookMessage", message, flat, parsedItems)>>
         /\ IF parsedItems = <<>>
            THEN UNCHANGED <<processedMessages, tasks, sink>>
            ELSE /\ processedMessages' = processedMessages \cup {message.id}
                 /\ sink' = Append(sink, purchaseRequest(Task(message, flat, parsedItems), 0))
                 /\ tasks' = Append(tasks, Task(message, flat, parsedItems))

\* the value of parsedItems (which is read only for a checkout message)
parsedItemsOf(flat) ==
    LET parsed == parseWebhookMessage(flat.embed, flat.rawText)
    IN  [i \in 1..Len(parsed) |-> parsed[i][2]]

\* mutant: the set of processed messages is not consulted
processMessageUnchecked(message) ==
    IF message.channelId # DISCORD_CHANNEL_ID
    THEN UNCHANGED <<processedMessages, tasks, calls, sink>>
    ELSE \E flat \in {flattenMessage(message)} :
            \E parsedItems \in {parsedItemsOf(flat)} :
               processFlattened(message, flat, parsedItems)

\* processMessage up to its first await (or to its return)
processMessage(message) ==
    IF message.channelId # DISCORD_CHANNEL_ID \/ message.id \in processedMessages
    THEN UNCHANGED <<processedMessages, tasks, calls, sink>>
    ELSE \E flat \in {flattenMessage(message)} :
            \E parsedItems \in {parsedItemsOf(flat)} :
               processFlattened(message, flat, parsedItems)

parserVars == <<embed, rawText, pc, isCheckout, locals, purchases, pushedIdx>>

\* client.on('messageCreate', ...)
MessageCreate ==
    /\ events < MaxEvents
    /\ events' = events + 1
    /\ \E message \in Messages : processMessage(message)
    /\ UNCHANGED parserVars

\* client.on('messageUpdate', ...): a partial message is dropped
MessageUpdate ==
    /\ events < MaxEvents
    /\ events' = events + 1
    /\ \E message \in Messages, partial \in BOOLEAN :
          IF partial THEN UNCHANGED <<processedMessages, tasks, calls, sink>>
          ELSE processMessage(message)
    /\ UNCHANGED parserVars

\* what the API answers to one POST /bot/purchases (or the fetch fails)
Outcomes == {"ok", "conflict", "unauthorized", "error", "network-failure"}

\* insertPurchase's return value
inserted(outcome) == outcome = "ok"

\* the await of insertPurchase returns to task t: the loop goes on to the
\* next item or processMessage ends
InsertPurchaseReturns ==
    /\ \E t \in 1..Len(tasks), outcome \in Outcomes :
          LET task == [tasks[t] EXCEPT
                          !.savedCount = IF inserted(outcome) THEN @ + 1 ELSE @,
                          !.i = @ + 1]
          IN  IF task.i < Len(task.parsedItems)
              THEN /\ sink' = Append(sink, purchaseRequest(task, task.i))
                   /\ tasks' = [tasks EXCEPT ![t] = task]
              ELSE /\ sink' = sink
                   /\ tasks' = SubSeq(tasks, 1, t - 1) \o SubSeq(tasks, t + 1, Len(tasks))
    /\ UNCHANGED <<processedMessages, calls, events, parserVars>>

InitListener ==
    /\ embed = NullEmbed
    /\ rawText = <<>>
    /\ pc = "listening"
    /\ isCheckout = FALSE
    /\ locals = NoLocals
    /\ purchases = <<>>
    /\ pushedIdx = <<>>
    /\ ListenerIdle

NextListener == MessageCreate \/ MessageUpdate \/ InsertPurchaseReturns

SpecListener == InitListener /\ [][NextListener]_vars

-----------------------------------------------------------------------------
(* Properties of parseWebhookMessage                                       *)

SharedKeys == {"site", "mode", "fulfillment_type", "profile", "order_id",
               "order_email", "order_link", "account"}

OptionalSharedKeys == SharedKeys \ {"site"}

Parsed == pc = "parsed"

\* a cleansed optional value: null when nothing is left of it
CleansedOptional(v) == IF stripSpoilerTags(v) = <<>> THEN Null ELSE stripSpoilerTags(v)

ItemGet(items, index, key) == MapGet(MapGet(items, index), key)

\* C1: all records returned by one call agree on site, mode, fulfillment_type,
\* profile, order_id, order_email, order_link and account, and each carries
\* the rawText argument unchanged as raw_message_text.
C1_SharedFieldsIdentical ==
    Parsed =>
        /\ \A i, j \in 1..Len(purchases) : \A k \in SharedKeys :
              purchases[i][k] = purchases[j][k]
        /\ \A i \in 1..Len(purchases) : purchases[i].raw_message_text = rawText

\* two records of one call that differ in product, share a mode, and come
\* from a text with white space at its ends
C1_Witness ==
    /\ Parsed
    /\ Len(purchases) >= 2
    /\ purchases[1].product # purchases[2].product
    /\ purchases[1].mode # Null
    /\ trim(rawText) # rawText

\* a record built for item idx uses the embed's value for every key the
\* embed supplies
EmbedValuesUsed(rec, idx) ==
    /\ MapHas(locals.embedShared, "site")
          => rec.site = stripSpoilerTags(MapGet(locals.embedShared, "site"))
    /\ \A k \in OptionalSharedKeys :
          MapHas(locals.embedShared, k)
          => rec[k] = CleansedOptional(MapGet(locals.embedShared, k))
    /\ ItemHas(locals.embedItems, idx, "product")
          => rec.product = stripSpoilerTags(ItemGet(locals.embedItems, idx, "product"))
    /\ ItemHas(locals.embedItems, idx, "sku")
          => rec.sku = CleansedOptional(ItemGet(locals.embedItems, idx, "sku"))
    /\ ItemHas(locals.embedItems, idx, "price")
          => rec.price = IF ItemGet(locals.embedItems, idx, "price") = <<>>
                         THEN Decimal(0, 0)
                         ELSE parsePrice(ItemGet(locals.embedItems, idx, "price"))
    /\ ItemHas(locals.embedItems, idx, "quantity")
          => rec.quantity = IF ItemGet(locals.embedItems, idx, "quantity") = <<>>
                            THEN 1
                            ELSE parseQuantity(ItemGet(locals.embedItems, idx, "quantity"))

\* and the text's value for the keys only the text supplies
TextValuesFillGaps(rec, idx) ==
    /\ (~MapHas(locals.embedShared, "site") /\ MapHas(locals.textShared, "site"))
          => rec.site = stripSpoilerTags(MapGet(locals.textShared, "site"))
    /\ \A k \in OptionalSharedKeys :
          (~MapHas(locals.embedShared, k) /\ MapHas(locals.textShared, k))
          => rec[k] = CleansedOptional(MapGet(locals.textShared, k))
    /\ (~ItemHas(locals.embedItems, idx, "product") /\ ItemHas(locals.textItems, idx, "product"))
          => rec.product = stripSpoilerTags(ItemGet(locals.textItems, idx, "product"))
    /\ (~ItemHas(locals.embedItems, idx, "sku") /\ ItemHas(locals.textItems, idx, "sku"))
          => rec.sku = CleansedOptional(ItemGet(locals.textItems, idx, "sku"))
    /\ (~ItemHas(locals.embedItems, idx, "price") /\ ItemHas(locals.textItems, idx, "price"))
          => rec.price = parsePrice(ItemGet(locals.textItems, idx, "price"))
    /\ (~ItemHas(locals.embedItems, idx, "quantity") /\ ItemHas(locals.textItems, idx, "quantity"))
          => rec.quantity = parseQuantity(ItemGet(locals.textItems, idx, "quantity"))

\* The merge itself prefers the embed: for every key the embed pass recorded
\* the record is built from that value, and a text value is used only for a
\* key the embed pass did not record.
MergePrefersEmbed ==
    Parsed =>
        \A n \in 1..Len(purchases) :
            /\ EmbedValuesUsed(purchases[n], pushedIdx[n])
            /\ TextValuesFillGaps(purchases[n], pushedIdx[n])

PerItemKeys == {"product", "price", "quantity", "sku"}

\* the trimmed values the embed fields supply for canonical key k (for a
\* per-item key: at item index idx), by the static mapping table
EmbedSupplied(k, idx) ==
    {trim(embed.fields[i].value) : i \in
        {i \in 1..Len(embed.fields) :
            /\ embed.present
            /\ parseFieldName(embed.fields[i].name).matched
            /\ MapGet(FIELD_MAPPINGS, parseFieldName(embed.fields[i].name).baseName) = k
            /\ k \in PerItemKeys => parseFieldName(embed.fields[i].name).index = idx}}

\* the value a record shows for key k when it is built from raw value v
Built(k, v) ==
    CASE k \in {"site", "product"} -> stripSpoilerTags(v)
      [] k = "price" -> IF v = <<>> THEN Decimal(0, 0) ELSE parsePrice(v)
      [] k = "quantity" -> IF v = <<>> THEN 1 ELSE parseQuantity(v)
      [] OTHER -> CleansedOptional(v)

\* the text supplies a value for key k (for a per-item key: at index idx)
TextSupplies(k, idx) ==
    IF k \in PerItemKeys THEN ItemHas(locals.textItems, idx, k)
    ELSE MapHas(locals.textShared, k)

\* C2: whenever the embed fields and the text both supply a value for one
\* canonical key (shared, or per-item at the record's index), the record is
\* built from an embed value for that key and not from the text's.
C2_EmbedTakesPrecedence ==
    Parsed =>
        \A n \in 1..Len(purchases) : \A k \in SharedKeys \cup PerItemKeys :
            (EmbedSupplied(k, pushedIdx[n]) # {} /\ TextSupplies(k, pushedIdx[n]))
            => purchases[n][k] \in {Built(k, v) : v \in EmbedSupplied(k, pushedIdx[n])}

\* the item indices seen in the embed fields or in the text, or the one
\* synthesized index 0
SeenIndices ==
    IF locals.embedItems = <<>> /\ locals.textItems = <<>> THEN {0}
    ELSE Range(MapKeys(locals.embedItems)) \cup Range(MapKeys(locals.textItems))

FieldNames == {trim(toLowerCase(embed.fields[i].name)) : i \in 1..Len(embed.fields)}

\* the embed is a two-item checkout: Product (1), Price (1), Product (2),
\* Price (2) and Site, in any order, each with a value that survives cleansing
IsTwoItemCheckout ==
    /\ embed.present
    /\ Len(embed.fields) = 5
    /\ FieldNames = {trim(toLowerCase(name)) :
                        name \in {N_Product1, N_Price1, N_Product2, N_Price2, N_Site}}
    /\ \A i \in 1..Len(embed.fields) : stripSpoilerTags(embed.fields[i].value) # <<>>
    /\ locals.textItems = <<>>

\* C3: the records come in strictly ascending item-index order, at most one
\* per index, every index being one seen in the embed fields or the text (or
\* the synthesized 0); a two-item checkout yields exactly two records, item
\* 1 before item 2, whatever the order of its fields.
C3_AscendingItemOrder ==
    Parsed =>
        /\ \A i, j \in 1..Len(pushedIdx) : i < j => pushedIdx[i] < pushedIdx[j]
        /\ Range(pushedIdx) \subseteq SeenIndices
        /\ Len(purchases) = Len(pushedIdx)
        /\ IsTwoItemCheckout =>
              /\ pushedIdx = <<0, 1>>
              /\ purchases[1].product
                    = stripSpoilerTags(ItemGet(locals.embedItems, 0, "product"))
              /\ purchases[2].product
                    = stripSpoilerTags(ItemGet(locals.embedItems, 1, "product"))
              /\ purchases[1].site = purchases[2].site

\* a two-item checkout whose fields name item 2 before item 1
C3_Witness ==
    /\ Parsed
    /\ IsTwoItemCheckout
    /\ MapKeys(locals.embedItems) = <<1, 0>>
    /\ Len(purchases) = 2

\* the indices whose item passes the required-field gate
PassingIndices ==
    {locals.items[i][1] : i \in
        {i \in 1..Len(locals.items) :
            /\ stripSpoilerTags(GetOr(locals.items[i][2], "product", <<>>)) # <<>>
            /\ stripSpoilerTags(GetOr(locals.shared, "site", <<>>)) # <<>>}}

-----------------------------------------------------------------------------
(* Properties of isSuccessfulCheckout                                      *)

Classified == pc = "classified"

SearchedParts == <<embed.title, embed.description, embed.authorName, rawText>>

\* some searched part holds a trigger phrase, compared case-insensitively
SomePartHasPhrase ==
    \E i \in 1..Len(SearchedParts), phrase \in TriggerPhrases :
        includes(toLowerCase(SearchedParts[i]), phrase)

\* the lower-cased parts, one space between each two
SpaceJoinedParts ==
    toLowerCase(embed.title) \o <<" ">> \o toLowerCase(embed.description) \o <<" ">>
    \o toLowerCase(embed.authorName) \o <<" ">> \o toLowerCase(rawText)

\* C5 as stated: when no searched part holds a trigger phrase, the result
\* is false, also when a phrase arises across the boundary of two parts.
C5_FalseWithoutPhraseInAnyPart ==
    (Classified /\ ~SomePartHasPhrase) => ~isCheckout

\* C5 as amended: the result is false whenever the title, description,
\* author name and rawText joined by single spaces hold no trigger phrase,
\* and true whenever they hold one: a phrase across the boundary of two
\* parts counts.
C5_FalseWithoutPhraseInJoinedText ==
    Classified =>
        (isCheckout <=> \E phrase \in TriggerPhrases : includes(SpaceJoinedParts, phrase))

\* a message classified as a checkout although none of its parts holds a phrase
C5_Witness ==
    /\ Classified
    /\ isCheckout
    /\ ~SomePartHasPhrase

-----------------------------------------------------------------------------
(* Properties of the parsed values and of the extraction from embed.fields *)

\* C6: every returned record has a quantity of at least 1.
C6_QuantityAtLeastOne ==
    Parsed => \A n \in 1..Len(purchases) : purchases[n].quantity >= 1

\* the positions of the embed fields that are recorded under shared key k
SharedPositions(k) ==
    {i \in 1..Len(embed.fields) :
        /\ embed.present
        /\ parseFieldName(embed.fields[i].name).matched
        /\ parseFieldName(embed.fields[i].name).baseName \in SHARED_FIELDS
        /\ MapGet(FIELD_MAPPINGS, parseFieldName(embed.fields[i].name).baseName) = k}

\* the positions of the embed fields that are recorded under per-item key k
\* of item idx
ItemPositions(k, idx) ==
    {i \in 1..Len(embed.fields) :
        /\ embed.present
        /\ parseFieldName(embed.fields[i].name).matched
        /\ parseFieldName(embed.fields[i].name).baseName \in PER_ITEM_FIELDS
        /\ MapGet(FIELD_MAPPINGS, parseFieldName(embed.fields[i].name).baseName) = k
        /\ parseFieldName(embed.fields[i].name).index = idx}

EmbedIndices ==
    {parseFieldName(embed.fields[i].name).index : i \in 1..Len(embed.fields)}

\* the embed-sourced value of every key is that of the field Pick chooses
\* among the fields recorded under the key
EmbedValuesComeFrom(Pick(_)) ==
    /\ \A k \in SharedKeys :
          SharedPositions(k) # {}
          => /\ MapHas(locals.embedShared, k)
             /\ MapGet(locals.embedShared, k)
                   = trim(embed.fields[Pick(SharedPositions(k))].value)
    /\ \A k \in PerItemKeys, idx \in EmbedIndices :
          ItemPositions(k, idx) # {}
          => /\ ItemHas(locals.embedItems, idx, k)
             /\ ItemGet(locals.embedItems, idx, k)
                   = trim(embed.fields[Pick(ItemPositions(k, idx))].value)

BuyNowLabels == {L_buy_now, L_buy_now_atc}

\* the cleansed values of the embed fields labelled Buy Now / Buy Now ATC?
BuyNowValues ==
    {stripSpoilerTags(trim(embed.fields[i].value)) : i \in
        {i \in 1..Len(embed.fields) :
            /\ embed.present
            /\ parseFieldName(embed.fields[i].name).matched
            /\ parseFieldName(embed.fields[i].name).baseName \in BuyNowLabels}}

\* C8: the value of a resolved label is recorded under its canonical key:
\* an embed field labelled Buy Now or Buy Now ATC? with a non-empty value, no
\* other source of a mode being present, gives every record that value as
\* mode, as the label Mode would.
C8_BuyNowSetsMode ==
    (/\ Parsed
     /\ BuyNowValues # {}
     /\ <<>> \notin BuyNowValues
     /\ ~MapHas(locals.shared, "mode")
     /\ ~includes(toLowerCase(rawText), L_buy_now))
    => \A n \in 1..Len(purchases) : purchases[n].mode \in BuyNowValues

\* C9: every item index parseFieldName produces, and so every key of the
\* per-item maps, is at least 0.
C9_ItemIndexNonNegative ==
    Parsed =>
        /\ \A i \in 1..Len(embed.fields) : parseFieldName(embed.fields[i].name).index >= 0
        /\ \A idx \in Range(MapKeys(locals.embedItems)) \cup Range(MapKeys(locals.textItems))
                      \cup Range(MapKeys(locals.items)) : idx >= 0

-----------------------------------------------------------------------------
(* Properties of the listener                                              *)

\* the calls made while processing a message that carries several embeds
MultiEmbedCalls ==
    {n \in 1..Len(calls) : Len(calls[n].message.embeds) > 1}

\* rawText holds every rendered part of every embed of the message
RawTextHoldsEveryEmbed(call) ==
    \A e \in 1..Len(call.message.embeds) :
        \A part \in Range(embedTextParts(call.message.embeds[e])) :
            includes(call.rawText, part)

\* C10 as stated: for a message with more than one embed, both parser
\* functions receive the first embed, and rawText holds the rendered
\* content of every embed.
C10_FirstEmbedPassed ==
    \A n \in MultiEmbedCalls :
        /\ calls[n].embed = simplifiedEmbed(calls[n].message.embeds[1])
        /\ RawTextHoldsEveryEmbed(calls[n])

\* C10 as amended: for a message with more than one embed, both parser
\* functions receive the last embed (each embed of the loop replaces the
\* one before), and rawText holds the rendered content of every embed.
C10_LastEmbedPassed ==
    \A n \in MultiEmbedCalls :
        /\ calls[n].embed
              = simplifiedEmbed(calls[n].message.embeds[Len(calls[n].message.embeds)])
        /\ RawTextHoldsEveryEmbed(calls[n])

\* both functions have been called for a message whose first and last
\* embeds differ
C10_Witness ==
    \E n, m \in MultiEmbedCalls :
        /\ calls[n].fn = "isSuccessfulCheckout"
        /\ calls[m].fn = "parseWebhookMessage"
        /\ calls[n].message = calls[m].message
        /\ simplifiedEmbed(calls[n].message.embeds[1])
              # simplifiedEmbed(calls[n].message.embeds[Len(calls[n].message.embeds)])

\* what the logged call of isSuccessfulCheckout / parseWebhookMessage returned
ReturnedCheckout(call) == call.returned

ReturnedItems(call) == call.returned

\* the logged call n is a call of parseWebhookMessage that directly follows
\* the call of isSuccessfulCheckout for the same message, which returned true
ParsedAfterCheckout(n) ==
    /\ calls[n].fn = "parseWebhookMessage"
    /\ n > 1
    /\ calls[n - 1].fn = "isSuccessfulCheckout"
    /\ calls[n - 1].message = calls[n].message
    /\ calls[n - 1].embed = calls[n].embed
    /\ calls[n - 1].rawText = calls[n].rawText
    /\ ReturnedCheckout(calls[n - 1])

\* the requests handed to the sink for the records parse call n returned
RequestsOf(n) ==
    {[purchase |-> ReturnedItems(calls[n])[i + 1],
      purchase_date |-> IF calls[n].message.createdAt # "" THEN calls[n].message.createdAt
                        ELSE "now",
      raw_message_text |-> calls[n].rawText,
      discord_message_id |-> discordMessageId(calls[n].message.id,
                                              Len(ReturnedItems(calls[n])), i)] :
        i \in 0..(Len(ReturnedItems(calls[n])) - 1)}

\* C11: parseWebhookMessage is called only right after isSuccessfulCheckout
\* returned true for the same message, and never after it returned false;
\* every sink call carries a record of a parse call that followed a true
\* classification and returned a non-empty sequence; a message is marked
\* processed only by such a parse call, so an empty result marks nothing.
C11_ClassifyBeforeParseBeforeSink ==
    /\ \A n \in 1..Len(calls) :
          /\ calls[n].fn = "parseWebhookMessage" => ParsedAfterCheckout(n)
          /\ (calls[n].fn = "isSuccessfulCheckout" /\ ~ReturnedCheckout(calls[n]))
                => (n = Len(calls) \/ calls[n + 1].fn = "isSuccessfulCheckout")
          /\ (calls[n].fn = "isSuccessfulCheckout" /\ ReturnedCheckout(calls[n]))
                => (n < Len(calls) /\ calls[n + 1].fn = "parseWebhookMessage")
    /\ \A k \in 1..Len(sink) :
          \E n \in 1..Len(calls) :
              /\ ParsedAfterCheckout(n)
              /\ ReturnedItems(calls[n]) # <<>>
              /\ sink[k] \in RequestsOf(n)
    /\ \A id \in processedMessages :
          \E n \in 1..Len(calls) :
              /\ ParsedAfterCheckout(n)
              /\ calls[n].message.id = id
              /\ ReturnedItems(calls[n]) # <<>>

\* a checkout message whose parse returned nothing was skipped and is not
\* marked processed, and another message has reached the sink
C11_Witness ==
    /\ \E n \in 1..Len(calls) :
          /\ ParsedAfterCheckout(n)
          /\ ReturnedItems(calls[n]) = <<>>
          /\ calls[n].message.id \notin processedMessages
    /\ sink # <<>>

-----------------------------------------------------------------------------
(* Properties of extractFieldsFromText                                     *)

Absent == <<"absent">>

\* the canonical key of a label that resolves
KeyOf(label) == MapGet(FIELD_MAPPINGS, parseFieldName(label).baseName)

\* the label at position i of labels resolves to key k (for a per-item key:
\* at item index idx)
ResolvesTo(label, k, idx) ==
    /\ parseFieldName(label).matched
    /\ KeyOf(label) = k
    /\ k \in PerItemKeys => parseFieldName(label).index = idx

\* the positions of the labels of the line pairs: a line that resolves as a
\* field name, followed by a line that does not
LinePairs(lines) ==
    {i \in 1..(Len(lines) - 1) :
        parseFieldName(lines[i]).matched /\ ~parseFieldName(lines[i + 1]).matched}

\* the colon matches of the text from position from on, in order, each with
\* its trimmed label and value
RECURSIVE ColonMatches(_, _)
ColonMatches(text, from) ==
    LET starts == {p \in from..Len(text) : colonMatchAt(text, p).matched}
        m == colonMatchAt(text, SetMin(starts))
    IN  IF starts = {} THEN <<>>
        ELSE <<[fieldName |-> trim(m.fieldName), value |-> trim(m.value)]>>
             \o ColonMatches(text, m.last + 1)

\* the text value of key k (at index idx) as the merge of the two strategies
\* gives it: the first line pair for a shared key, the last for a per-item
\* key, else the first colon match with a value
MergedTextValue(lines, matches, k, idx) ==
    LET pairs == {i \in LinePairs(lines) : ResolvesTo(lines[i], k, idx)}
        colons == {j \in 1..Len(matches) :
                      ResolvesTo(matches[j].fieldName, k, idx) /\ matches[j].value # <<>>}
    IN  IF pairs # {}
        THEN lines[(IF k \in PerItemKeys THEN SetMax(pairs) ELSE SetMin(pairs)) + 1]
        ELSE IF colons # {} THEN matches[SetMin(colons)].value
        ELSE Absent

\* the value extractFieldsFromText returned for key k (at index idx)
TextValue(k, idx) ==
    IF k \in PerItemKeys
    THEN IF ItemHas(locals.textItems, idx, k) THEN ItemGet(locals.textItems, idx, k) ELSE Absent
    ELSE IF MapHas(locals.textShared, k) THEN MapGet(locals.textShared, k) ELSE Absent

\* the item indices named by the labels of the text
TextIndices(lines, matches) ==
    {parseFieldName(lines[i]).index : i \in 1..Len(lines)}
    \cup {parseFieldName(matches[j].fieldName).index : j \in 1..Len(matches)}
    \cup Range(MapKeys(locals.textItems))

\* C12: for every canonical key the text value is that of the first line
\* pair (shared key) or of the last line pair (per-item key, per index) whose
\* label resolves to the key, else that of the first colon match that
\* resolves to it; a line pair is a label followed by a line that does not
\* itself resolve as a field name.
C12_LinePairWinsOverColon ==
    Parsed =>
        \E lines \in {textLines(rawText)} : \E matches \in {ColonMatches(rawText, 1)} :
            \A k \in SharedKeys \cup PerItemKeys : \A idx \in TextIndices(lines, matches) :
                TextValue(k, idx) = MergedTextValue(lines, matches, k, idx)

\* the same for every key but mode in a text that has a Buy Now label
LinePairWinsOverColonButBuyNow ==
    Parsed =>
        \E lines \in {textLines(rawText)} : \E matches \in {ColonMatches(rawText, 1)} :
            \A k \in SharedKeys \cup PerItemKeys : \A idx \in TextIndices(lines, matches) :
                \/ /\ k = "mode"
                   /\ \/ \E i \in 1..Len(lines) :
                            parseFieldName(lines[i]).baseName \in BuyNowLabels
                      \/ \E j \in 1..Len(matches) :
                            parseFieldName(matches[j].fieldName).baseName \in BuyNowLabels
                \/ TextValue(k, idx) = MergedTextValue(lines, matches, k, idx)

-----------------------------------------------------------------------------
(* Properties of the listener under interleaved events                     *)

\* the parse calls that returned records
RecordCalls ==
    {n \in 1..Len(calls) :
        calls[n].fn = "parseWebhookMessage" /\ ReturnedItems(calls[n]) # <<>>}

\* the identifier of request k is the id of the message of parse call n when
\* that call returned one record, and the id, "_" and the 0-based position
\* of the record when it returned more
IdentifiedBy(k, n) ==
    \E items \in {ReturnedItems(calls[n])} :
        \E i \in 0..(Len(items) - 1) :
            /\ sink[k].purchase = items[i + 1]
            /\ sink[k].discord_message_id
                  = IF Len(items) = 1 THEN calls[n].message.id
                    ELSE calls[n].message.id \o <<"_">> \o toString(i)

\* C13: whatever the interleaving of the events and of the returns of the
\* sink calls, the records of a message id are sent to the sink at most once
\* (at most one parse call per message id returned records, and every sink
\* call belongs to one), and no two sink calls carry the same identifier,
\* which is the message id for a single record and id_position otherwise.
C13_AtMostOnceUniqueIdentifiers ==
    /\ \A n, m \in RecordCalls : calls[n].message.id = calls[m].message.id => n = m
    /\ \A k \in 1..Len(sink) : \E n \in RecordCalls : IdentifiedBy(k, n)
    /\ \A j, k \in 1..Len(sink) :
          sink[j].discord_message_id = sink[k].discord_message_id => j = k

\* two messages are in flight: the second record of a two-record message
\* reaches the sink after the single record of a later message
C13_Witness ==
    /\ Len(sink) >= 3
    /\ \E j, k \in 1..Len(sink), n, m \in 1..Len(calls) :
          /\ j < k
          /\ sink[j].discord_message_id = calls[n].message.id
          /\ sink[k].discord_message_id = calls[m].message.id \o <<"_", "1">>
          /\ calls[n].message.id # calls[m].message.id

=============================================================================
